---------------------------- MODULE Spec2Model ----------------------------
(***************************************************************************)
(* A model of pgidocgen/repo.py: the Repository class.                     *)
(*                                                                         *)
(*   Spec      Repository.__init__: the dependency work-list traversal     *)
(*             (lines 96-104) and the merge of the type mappings           *)
(*             (lines 106-110).                                            *)
(*   FairSpec  the same, with the fairness of a sequential program: a      *)
(*             statement that can run does run.                            *)
(*   SignalSpec  lookup_signal_docs applied to every signal doc entry      *)
(*             within the bounds.                                          *)
(*   FuncSpec  parse_function applied to every callable within the bounds. *)
(*   FlagsSpec parse_flags applied to every enum/flag type within the      *)
(*             bounds.                                                     *)
(*   ReadySpec a constructed Repository on which the lookup and emission   *)
(*             methods are called one after the other, in any order.       *)
(***************************************************************************)
EXTENDS Integers, Sequences, FiniteSets, TLC

(***************************************************************************)
(* Bounds of the model.                                                    *)
(***************************************************************************)
\* total number of entries in all the dependency lists of the namespace store
MaxEdges == 4
\* cap of the per-key counter of get_namespace calls made by the traversal
MaxLoads == 2
\* longest signal doc text, in characters
MaxTextLen == 4
\* most lines of a callable's docstring
MaxDocLines == 3
\* most ancestors after the owning class in its method-resolution order
MaxBases == 3
\* largest integer value of an enum/flag member
MaxVal == 2
\* cap of the counter of method calls made on one Repository
MaxCalls == 3

(***************************************************************************)
(* Namespace keys (name, version) and the namespace store.                 *)
(***************************************************************************)
KeySeq == <<"Root", "A", "B", "C">>

Range(s) == {s[i] : i \in 1..Len(s)}

Keys == Range(KeySeq)

\* the key (namespace, version) the Repository is constructed for
Root == "Root"

Rank(k) == CHOOSE i \in 1..Len(KeySeq) : KeySeq[i] = k

\* edge lists <<source key, dependency key>>, grouped by source in key order;
\* the order of the entries of one source is the order of its dependency list
EdgeLists ==
    UNION {{el \in [1..n -> Keys \X Keys] :
               \A i \in 1..(n - 1) : Rank(el[i][1]) <= Rank(el[i + 1][1])}
           : n \in 0..MaxEdges}

GraphOf(el) ==
    [k \in Keys |->
        LET From(e) == e[1] = k
            mine == SelectSeq(el, From)
        IN [i \in 1..Len(mine) |-> mine[i][2]]]

\* every assignment of dependency lists (repeated entries, self references
\* and references to the root included) with at most MaxEdges entries
Graphs == {GraphOf(el) : el \in EdgeLists}

TypeNames == {"T", "U"}

NoType == "none"

VARIABLES
    pc,        \* position in the operation being run
    deps,      \* namespace store: key -> list returned by get_dependencies()
    nstypes,   \* namespace store: key -> type names get_types() defines
    to_load,   \* __init__: the work list (a Python list used as a stack)
    loaded,    \* __init__: keys of the dict `loaded`
    nloads,    \* history: key -> number of get_namespace(*key) calls at line 102
    indirect,  \* history: loaded keys the root does not list itself
    folded,    \* __init__: loaded namespaces already merged into _types
    types,     \* self._types: type name -> descriptor (the defining key)
    all_docs,  \* self._all: qualified name -> <<text, version>>
    parameters, \* self._parameters
    returns,   \* self._returns
    signals,   \* self._signals
    properties, \* self._properties
    call,      \* the method call being run: its name and arguments
    ret,       \* the value the call returned
    ncalls     \* history: number of method calls made on the Repository

initvars == <<deps, nstypes, to_load, loaded, nloads, indirect, folded>>

docvars == <<all_docs, parameters, returns, signals, properties>>

callvars == <<call, ret, ncalls>>

vars == <<pc, initvars, types, docvars, callvars>>

\* a Python dict with no entries
EmptyDict == <<>>

NoCall == [op |-> "none"]

\* Python's None, as a returned value
None == <<"None">>

NoDeps == [k \in Keys |-> <<>>]

NoTypes == [k \in Keys |-> {}]

EmptyTable == [n \in TypeNames |-> NoType]

(***************************************************************************)
(* Namespace store interface (pgidocgen.namespace, called from __init__).  *)
(***************************************************************************)
\* sub_ns.get_dependencies(): a fresh list of keys
get_dependencies(k) == deps[k]

\* sub_ns.get_types(): type name -> descriptor; the descriptor of a type is
\* identified by the namespace that supplies it
get_types(k) == [n \in TypeNames |-> IF n \in nstypes[k] THEN k ELSE NoType]

(***************************************************************************)
(* Repository.__init__                                                     *)
(***************************************************************************)
Front(s) == SubSeq(s, 1, Len(s) - 1)

Last(s) == s[Len(s)]

IsLoadedNever(key, ld) == FALSE

\* line 100: `key in loaded`
IsLoaded(key, ld) == key \in ld

DictUpdateKeep(t, m) == [n \in TypeNames |-> IF t[n] # NoType THEN t[n] ELSE m[n]]

\* dict.update: entries of m overwrite the entries of t under the same name
DictUpdate(t, m) == [n \in TypeNames |-> IF m[n] # NoType THEN m[n] ELSE t[n]]

Init ==
    /\ pc = "start"
    /\ deps \in Graphs
    /\ nstypes = NoTypes
    /\ to_load = <<>>
    /\ loaded = {}
    /\ nloads = [k \in Keys |-> 0]
    /\ indirect = {}
    /\ folded = {}
    /\ types = EmptyTable
    /\ all_docs = EmptyDict
    /\ parameters = EmptyDict
    /\ returns = EmptyDict
    /\ signals = EmptyDict
    /\ properties = EmptyDict
    /\ call = NoCall
    /\ ret = None
    /\ ncalls = 0

\* lines 96-97: loaded = {}; to_load = ns.get_dependencies()
BeginTraversal ==
    /\ pc = "start"
    /\ loaded' = {}
    /\ to_load' = get_dependencies(Root)
    /\ pc' = "traverse"
    /\ UNCHANGED <<deps, nstypes, nloads, indirect, folded, types, docvars, callvars>>

\* lines 98-101: pop a key that is already loaded and continue
PopSkip ==
    /\ pc = "traverse"
    /\ to_load # <<>>
    /\ IsLoaded(Last(to_load), loaded)
    /\ to_load' = Front(to_load)
    /\ UNCHANGED <<pc, deps, nstypes, loaded, nloads, indirect, folded, types, docvars, callvars>>

\* lines 98-104: pop a key that is not loaded, load it, push its dependencies
PopLoad ==
    /\ pc = "traverse"
    /\ to_load # <<>>
    /\ LET key == Last(to_load) IN
        /\ ~IsLoaded(key, loaded)
        /\ nloads[key] < MaxLoads
        /\ nloads' = [nloads EXCEPT ![key] = @ + 1]
        /\ loaded' = loaded \cup {key}
        /\ to_load' = Front(to_load) \o get_dependencies(key)
    /\ UNCHANGED <<pc, deps, nstypes, indirect, folded, types, docvars, callvars>>

\* line 98 with an empty work list, line 107: self._types = {}.  The
\* dependency lists are not consulted again; the model lets go of them here
\* and fixes the type maps the merge is about to read (those of the loaded
\* namespaces and of the root).
EndTraversal ==
    /\ pc = "traverse"
    /\ to_load = <<>>
    /\ nstypes' \in {f \in [Keys -> SUBSET TypeNames] :
                        \A k \in Keys \ (loaded \cup {Root}) : f[k] = {}}
    /\ indirect' = loaded \ Range(deps[Root])
    /\ deps' = NoDeps
    /\ types' = EmptyTable
    /\ folded' = {}
    /\ pc' = "merge"
    /\ UNCHANGED <<to_load, loaded, nloads, docvars, callvars>>

\* lines 108-109: one iteration of `for sub_ns in loaded.values()`; the
\* iteration order of a dict is not specified
FoldStep ==
    /\ pc = "merge"
    /\ \E k \in loaded \ folded :
        /\ types' = DictUpdate(types, get_types(k))
        /\ folded' = folded \cup {k}
    /\ UNCHANGED <<pc, deps, nstypes, to_load, loaded, nloads, indirect, docvars, callvars>>

\* line 110: self._types.update(ns.get_types())
FoldRoot ==
    /\ pc = "merge"
    /\ folded = loaded
    /\ types' = DictUpdate(types, get_types(Root))
    /\ pc' = "ready"
    /\ UNCHANGED <<deps, nstypes, to_load, loaded, nloads, indirect, folded, docvars, callvars>>

Next ==
    \/ BeginTraversal
    \/ PopSkip
    \/ PopLoad
    \/ EndTraversal
    \/ FoldStep
    \/ FoldRoot

Spec == Init /\ [][Next]_vars

FairSpec == Init /\ [][Next]_vars /\ WF_vars(Next)

(***************************************************************************)
(* Properties of Repository.__init__                                       *)
(***************************************************************************)
RECURSIVE Closure(_, _)
Closure(g, S) ==
    LET S2 == S \cup UNION {Range(g[k]) : k \in S}
    IN IF S2 = S THEN S ELSE Closure(g, S2)

\* the keys reachable from the root's direct dependencies
Reachable == Closure(deps, Range(deps[Root]))

TraversalOver == pc = "traverse" /\ to_load = <<>>

RECURSIVE SumOver(_, _)
SumOver(f, S) ==
    IF S = {} THEN 0
    ELSE LET k == CHOOSE x \in S : TRUE IN f[k] + SumOver(f, S \ {k})

TotalLoads == SumOver(nloads, Keys)

\* C1: the traversal never calls get_namespace twice for one key, and when
\* the work list runs empty every key reachable from the root's direct
\* dependencies has been loaded exactly once and no other key has been
\* loaded.
C1_EachKeyLoadedOnce ==
    /\ \A k \in Keys : nloads[k] <= 1
    /\ TraversalOver =>
          /\ loaded = Reachable
          /\ \A k \in Keys : nloads[k] = IF k \in Reachable THEN 1 ELSE 0

\* a diamond with a repeated entry: two direct dependencies of the root
\* share a dependency, and some dependency list names a key twice
C1_Witness ==
    /\ TraversalOver
    /\ \E a, b, c \in Keys \ {Root} :
          /\ a # b /\ a # c /\ b # c
          /\ {a, b} \subseteq Range(deps[Root])
          /\ c \in Range(deps[a]) \cap Range(deps[b])
          /\ nloads[c] = 1

\* C2: the traversal leaves its loop for every dependency graph, and while
\* it runs the number of get_namespace calls never exceeds the number of
\* distinct keys among the root's transitive dependencies.
C2_TraversalTerminates ==
    /\ <>(pc = "merge")
    /\ [](pc \in {"start", "traverse"} => TotalLoads <= Cardinality(Reachable))

\* the traversal is over for a graph in which a dependency lists the root
\* and a dependency lists itself
C2_Witness ==
    /\ TraversalOver
    /\ Root \in loaded
    /\ \E k \in loaded \ {Root} : k \in Range(deps[k])

\* C3: once construction is over, every type name the root namespace
\* defines is mapped to the root's descriptor.
C3_RootTypesWin ==
    pc = "ready" =>
        \A n \in nstypes[Root] : types[n] = get_types(Root)[n]

\* construction is over, the root and a namespace that only a dependency
\* lists define the same type name, and another name comes from a
\* dependency alone
C3_Witness ==
    /\ pc = "ready"
    /\ \E n \in nstypes[Root] : \E k \in indirect \ {Root} : n \in nstypes[k]
    /\ \E m \in TypeNames : types[m] \notin {Root, NoType}

(***************************************************************************)
(* Resolver: doc lookup and fixup (lines 112-179).                         *)
(*                                                                         *)
(* A qualified name is the sequence of its dot-separated segments, a doc   *)
(* text the sequence of its characters, and a rendered text a sequence of  *)
(* pieces: <<"chr", c>>, <<"ref", descriptor>> and <<"versionadded", v>>.  *)
(***************************************************************************)
Whitespace == {" ", "\n"}

Chars == {"a", ".", "$", "T"} \cup Whitespace

Texts == UNION {[1..n -> Chars] : n \in 0..MaxTextLen}

\* the falsy version of a DocEntry
NoVersion == ""

Versions == {NoVersion, "3.0"}

\* current=None
NoCurrent == "None"

Currents == {NoCurrent, "T"}

\* a dict holding one entry
Entry(name, value) == name :> value

\* one of the dicts of the DocIndex is read, by `name in d` and d[name]
DictAfterReadInsert(d, name) ==
    IF name \in DOMAIN d THEN d ELSE Entry(name, <<<<>>, NoVersion>>) @@ d

DictAfterRead(d, name) == d

\* parser.docstring_to_rest(types, current, d): the cross-reference
\* rewriter; a character naming a type the table knows becomes a reference,
\* except a reference of the current entity to itself
docstring_to_rest(t, current, d) ==
    [i \in 1..Len(d) |->
        IF d[i] \in TypeNames /\ d[i] # current /\ t[d[i]] # NoType
        THEN <<"ref", t[d[i]]>>
        ELSE <<"chr", d[i]>>]

\* lines 175-179
_fix_docs(d, version, current) ==
    LET rest == docstring_to_rest(types, current, d)
    IN IF version # NoVersion
       THEN rest \o <<(<<"versionadded", version>>)>>
       ELSE rest

LookupIn(d, name, current) ==
    IF name \in DOMAIN d
    THEN _fix_docs(d[name][1], d[name][2], current)
    ELSE <<>>

\* lines 112-121
lookup_attr_docs(name, current) == LookupIn(all_docs, name, current)

\* lines 123-132
lookup_return_docs(name, current) == LookupIn(returns, name, current)

\* lines 134-143
lookup_parameter_docs(name, current) == LookupIn(parameters, name, current)

\* lines 159-163
lookup_prop_docs(name, current) == LookupIn(properties, name, current)

\* the character class [\s$] of the pattern at line 149: inside brackets the
\* dollar sign is the character, not the end of a line
SplitFollowers == Whitespace \cup {"$"}

RECURSIVE ScanFrom(_, _)
\* the leftmost position at which "\.[\s$]" matches from i on, or 0
ScanFrom(d, i) ==
    IF i >= Len(d) THEN 0
    ELSE IF d[i] = "." /\ d[i + 1] \in SplitFollowers THEN i
    ELSE ScanFrom(d, i + 1)

\* re.split("\.[\s$]", docs, 1, re.MULTILINE)
re_split(d) ==
    LET i == ScanFrom(d, 1)
    IN IF i = 0 THEN <<d>>
       ELSE <<SubSeq(d, 1, i - 1), SubSeq(d, i + 2, Len(d))>>

LookupSignalDocsKeepVersion(name, short, current) ==
    IF name \in DOMAIN signals
    THEN LET docs == signals[name][1]
             version == signals[name][2]
             parts == re_split(docs)
         IN IF short /\ Len(parts) > 1
            THEN _fix_docs(parts[1] \o <<".">>, version, current)
            ELSE _fix_docs(docs, version, current)
    ELSE <<>>

\* lines 145-157
lookup_signal_docs(name, short, current) ==
    IF name \in DOMAIN signals
    THEN LET docs == signals[name][1]
             version == signals[name][2]
         IN IF short
            THEN LET parts == re_split(docs)
                 IN IF Len(parts) > 1
                    THEN _fix_docs(parts[1] \o <<".">>, NoVersion, current)
                    ELSE _fix_docs(docs, NoVersion, current)
            ELSE _fix_docs(docs, version, current)
    ELSE <<>>

\* the call returns to its caller
LookupSignalDocs ==
    /\ pc = "called"
    /\ call.op = "lookup_signal_docs"
    /\ ret' = lookup_signal_docs(call.name, call.short, call.current)
    /\ signals' = DictAfterRead(signals, call.name)
    /\ pc' = "returned"
    /\ UNCHANGED <<initvars, types, all_docs, parameters, returns, properties, call, ncalls>>

(***************************************************************************)
(* SignalSpec: lookup_signal_docs on a constructed Repository.             *)
(***************************************************************************)
SignalKey == <<"Gtk", "Foo", "some-signal">>

\* a type table as construction leaves it
Tables == {EmptyTable, [EmptyTable EXCEPT !["T"] = Root]}

Constructed ==
    /\ deps = NoDeps
    /\ nstypes = NoTypes
    /\ to_load = <<>>
    /\ loaded = {}
    /\ nloads = [k \in Keys |-> 0]
    /\ indirect = {}
    /\ folded = {}
    /\ types \in Tables

InitSignal ==
    /\ Constructed
    /\ all_docs = EmptyDict
    /\ parameters = EmptyDict
    /\ returns = EmptyDict
    /\ properties = EmptyDict
    /\ signals \in {EmptyDict} \cup
                   {Entry(SignalKey, <<t, v>>) : t \in Texts, v \in Versions}
    /\ call \in [op : {"lookup_signal_docs"}, name : {SignalKey},
                 short : BOOLEAN, current : Currents]
    /\ ret = None
    /\ ncalls = 0
    /\ pc = "called"

NextSignal == LookupSignalDocs

SignalSpec == InitSignal /\ [][NextSignal]_vars

(***************************************************************************)
(* Properties of lookup_signal_docs                                        *)
(***************************************************************************)
IsPrefix(a, b) == Len(a) <= Len(b) /\ SubSeq(b, 1, Len(a)) = a

\* positions of a period followed by a character of F
Periods(d, F) == {i \in 1..(Len(d) - 1) : d[i] = "." /\ d[i + 1] \in F}

Min(S) == CHOOSE x \in S : \A y \in S : x <= y

ShortReturned ==
    /\ pc = "returned"
    /\ call.op = "lookup_signal_docs"
    /\ call.short
    /\ call.name \in DOMAIN signals

NoneDoc == [isNone |-> TRUE, lines |-> <<>>]

Doc(ls) == [isNone |-> FALSE, lines |-> ls]

\* str(obj.__doc__).splitlines()
StrLines(doc) == IF doc.isNone THEN <<"None">> ELSE doc.lines

\* the truth value of obj.__doc__
Truthy(doc) == ~doc.isNone /\ doc.lines # <<>>

\* first lines FuncSignature.from_string makes a signature of
SigLines == {"f(a)", "f(b)", "f(c)", "f(z)"}

NoSig == "nosig"

\* funcsig.FuncSignature.from_string(func_name, first_line)
from_string(func_name, line) == IF line \in SigLines THEN line ELSE NoSig

\* lines 359-362
get_sig(func_name, doc) ==
    LET ls == StrLines(doc)
        first_line == IF ls # <<>> THEN ls[1] ELSE ""
    IN from_string(func_name, first_line)

\* line.strip() == ""
IsBlank(line) == line \in {"", "  "}

\* the Python slice s[1:]
From1(s) == IF s = <<>> THEN <<>> ELSE Tail(s)

RECURSIVE DropBlank(_)
\* lines 425-426
DropBlank(ls) ==
    IF ls # <<>> /\ IsBlank(ls[1]) THEN DropBlank(From1(ls)) ELSE ls

\* lines 421-427: the docstring without its first line and the blank lines
\* that follow it
user_docstring(doc) == DropBlank(From1(StrLines(doc)))

BasesWithOwner(mro) == mro

\* line 378: owner.__mro__[1:]
Bases(mro) == From1(mro)

RECURSIVE WalkBases(_, _, _, _)
\* lines 378-386, from the i-th base on; probed lists the bases getattr
\* was called on
WalkBases(bases, i, func_name, probed) ==
    IF i > Len(bases) THEN [sig |-> NoSig, probed |-> probed]
    ELSE IF bases[i].raises
         THEN WalkBases(bases, i + 1, func_name, Append(probed, i))
         ELSE LET sig == get_sig(func_name, bases[i].doc)
              IN IF sig # NoSig
                 THEN [sig |-> sig, probed |-> Append(probed, i)]
                 ELSE WalkBases(bases, i + 1, func_name, Append(probed, i))

Emission(kind, decl, origin, target, docs) ==
    [kind |-> kind, decl |-> decl, origin |-> origin, target |-> target,
     docs |-> docs]

Skip == Emission("skip", "", <<>>, <<>>, <<>>)

\* "%s = %s\n" % (func_name, name)
Alias(func_name, name) == Emission("alias", func_name, <<"is", name>>, <<>>, <<>>)

NewDocstringWhenSig(sig, doc) == sig # NoSig /\ Len(StrLines(doc)) > 1

\* line 373: `not sig and obj.__doc__`
NewDocstring(sig, doc) == sig = NoSig /\ Truthy(doc)

EmitGirDocsSwapped(func_name, name, is_method, gir) ==
    IF gir = <<>> THEN Alias(func_name, name)
    ELSE IF is_method
    THEN Emission("docattr", func_name, <<"is", name>>, <<func_name>>,
                  <<(<<"rest", gir>>)>>)
    ELSE Emission("trailing", func_name, <<"is", name>>, <<>>,
                  <<(<<"rest", gir>>)>>)

\* lines 389-416: no signature; gir is lookup_attr_docs(name, current)
EmitGirDocs(func_name, name, is_method, gir) ==
    IF gir = <<>> THEN Alias(func_name, name)
    ELSE IF is_method
    THEN Emission("trailing", func_name, <<"is", name>>, <<>>,
                  <<(<<"rest", gir>>)>>)
    ELSE Emission("docattr", func_name, <<"is", name>>, <<func_name>>,
                  <<(<<"rest", gir>>)>>)

SigDocsGirFirst(listing, user, gir) ==
    IF gir # <<>> THEN <<listing, <<"blank">>, <<"rest", gir>>>>
    ELSE IF user # <<>> THEN <<listing, <<"blank">>, <<"unindent", user>>>>
    ELSE <<listing>>

\* lines 430-442: the listing of the signature, then the user docstring if
\* there is one, otherwise the gir docs if there are any
SigDocs(listing, user, gir) ==
    IF user # <<>> THEN <<listing, <<"blank">>, <<"unindent", user>>>>
    ELSE IF gir # <<>> THEN <<listing, <<"blank">>, <<"rest", gir>>>>
    ELSE <<listing>>

\* sig.to_rest_listing(self, name, current=current_rst_target)
to_rest_listing(sig, name, current) == <<"listing", sig, name, current>>

\* lines 449-470
EmitSigDocs(func_name, name, is_method, static, docs) ==
    IF is_method
    THEN Emission("trailing", func_name,
                  IF static THEN <<"staticmethod", name>> ELSE <<"is", name>>,
                  <<>>, docs)
    ELSE Emission("docattr", func_name, <<"is", name>>, name, docs)

\* lines 349-470; the result carries, beside the emission, the signature
\* that was found and the bases that were probed for one
parse_function(name, owner, obj) ==
    LET is_method == owner.present
        current == IF is_method THEN owner.target ELSE NoCurrent
        func_name == Last(name)
        own == get_sig(func_name, obj.doc)
    IN IF func_name = ""
       THEN [out |-> Skip, sig |-> NoSig, probed |-> <<>>]
       ELSE IF NewDocstring(own, obj.doc)
       THEN [out |-> Alias(func_name, name), sig |-> own, probed |-> <<>>]
       ELSE LET walk == IF own = NoSig /\ owner.present
                        THEN WalkBases(Bases(owner.mro), 1, func_name, <<>>)
                        ELSE [sig |-> own, probed |-> <<>>]
                gir == lookup_attr_docs(name, current)
            IN [out |->
                   IF walk.sig = NoSig
                   THEN EmitGirDocs(func_name, name, is_method, gir)
                   ELSE EmitSigDocs(func_name, name, is_method, obj.static,
                            SigDocs(to_rest_listing(walk.sig, name, current),
                                    user_docstring(obj.doc), gir)),
                sig |-> walk.sig,
                probed |-> walk.probed]

\* the call returns to its caller
ParseFunction ==
    /\ pc = "called"
    /\ call.op = "parse_function"
    /\ ret' = parse_function(call.name, call.owner, call.obj)
    /\ all_docs' = DictAfterRead(all_docs, call.name)
    /\ pc' = "returned"
    /\ UNCHANGED <<initvars, types, parameters, returns, signals, properties, call, ncalls>>

(***************************************************************************)
(* FuncSpec: parse_function on a constructed Repository.                   *)
(***************************************************************************)
DocLines == {"f(a)", "text", "  "}

Docs == {NoneDoc} \cup
        {Doc(ls) : ls \in UNION {[1..n -> DocLines] : n \in 0..MaxDocLines}}

\* what getattr(base, func_name, None) does on an ancestor: it raises
\* NotImplementedError, or gives an object (None for a missing attribute,
\* whose __doc__ is None)
Ancestors ==
    {[raises |-> TRUE, doc |-> NoneDoc]} \cup
    {[raises |-> FALSE, doc |-> d] : d \in {NoneDoc, Doc(<<"f(b)">>), Doc(<<"f(c)">>)}}

\* the owning class is the first entry of its own __mro__
OwnerEntry == [raises |-> FALSE, doc |-> Doc(<<"f(z)">>)]

\* owner=None
NoOwner == [present |-> FALSE, target |-> NoCurrent, mro |-> <<>>]

Owners ==
    {NoOwner} \cup
    {[present |-> TRUE, target |-> "T", mro |-> <<OwnerEntry>> \o bs] :
        bs \in UNION {[1..n -> Ancestors] : n \in 0..MaxBases}}

FuncName == <<"Gtk", "Foo", "f">>

FuncNames == {FuncName, <<"GLib", "IConv", "">>}

GirTexts == {<<>>, <<"T", "a">>}

InitFunc ==
    /\ Constructed
    /\ types = [EmptyTable EXCEPT !["T"] = Root]
    /\ all_docs \in {EmptyDict} \cup
                    {Entry(FuncName, <<t, v>>) : t \in GirTexts, v \in Versions}
    /\ parameters = EmptyDict
    /\ returns = EmptyDict
    /\ properties = EmptyDict
    /\ signals = EmptyDict
    /\ call \in [op : {"parse_function"}, name : FuncNames, owner : Owners,
                 obj : [doc : Docs, static : BOOLEAN]]
    /\ ret = None
    /\ ncalls = 0
    /\ pc = "called"

NextFunc == ParseFunction

FuncSpec == InitFunc /\ [][NextFunc]_vars

(***************************************************************************)
(* Properties of parse_function                                            *)
(***************************************************************************)
FuncReturned ==
    /\ pc = "returned"
    /\ call.op = "parse_function"
    /\ Last(call.name) # ""

IsMethod == call.owner.present

OwnDoc == call.obj.doc

\* whether a signature parses from the callable's own docstring
OwnSig == get_sig(Last(call.name), OwnDoc)

\* the ancestors of the owning class, in method-resolution order
AncestorsOf(owner) == SubSeq(owner.mro, 2, Len(owner.mro))

\* the ancestors whose same-named attribute can be read and carries a
\* signature
Yielding ==
    {i \in 1..Len(AncestorsOf(call.owner)) :
        /\ ~AncestorsOf(call.owner)[i].raises
        /\ get_sig(Last(call.name), AncestorsOf(call.owner)[i].doc) # NoSig}

\* the gir doc of the qualified name, as the resolver renders it
GirDoc ==
    lookup_attr_docs(call.name, IF IsMethod THEN call.owner.target ELSE NoCurrent)

GirOnly(kind) ==
    /\ ret.out.kind = kind
    /\ ret.out.decl = Last(call.name)
    /\ ret.out.origin = <<"is", call.name>>
    /\ ret.out.docs = <<(<<"rest", GirDoc>>)>>

NoSigEmission ==
    IF GirDoc = <<>> THEN ret.out = Alias(Last(call.name), call.name)
    ELSE IF IsMethod THEN GirOnly("trailing")
    ELSE GirOnly("docattr")

\* C4 as stated: with no signature on the own docstring and none from a
\* base class, the emission is the bare alias without a gir doc, the alias
\* and a doc attribute holding the gir text for a free function, the alias
\* and a trailing block holding the gir text for a method.
C4_NoSigEmission ==
    (FuncReturned /\ OwnSig = NoSig /\ (IsMethod => Yielding = {}))
        => NoSigEmission

\* C4, amended: the same, for a callable that has no docstring of its own
\* (None or empty).
C4_NoDocNoSigEmission ==
    (FuncReturned /\ ~Truthy(OwnDoc) /\ OwnSig = NoSig
                  /\ (IsMethod => Yielding = {}))
        => NoSigEmission

\* a free function without a docstring whose versioned gir doc became its
\* doc attribute
C4_Witness ==
    /\ FuncReturned
    /\ ~IsMethod
    /\ OwnDoc.isNone
    /\ Len(GirDoc) = 3
    /\ ret.out.kind = "docattr"

\* C5 as stated: a signature on the first line and text after that line
\* give the alias alone.
C5_SigAndBodyAliasOnly ==
    (FuncReturned /\ OwnSig # NoSig
                  /\ \E i \in 2..Len(StrLines(OwnDoc)) : ~IsBlank(StrLines(OwnDoc)[i]))
        => ret.out = Alias(Last(call.name), call.name)

\* C5, amended: a docstring that is not empty and whose first line is no
\* signature gives the alias alone; no base class is probed and neither a
\* listing nor a doc text is attached.
C5_DocWithoutSigAliasOnly ==
    (FuncReturned /\ OwnSig = NoSig /\ Truthy(OwnDoc))
        => /\ ret.out = Alias(Last(call.name), call.name)
           /\ ret.probed = <<>>

\* a method with such a docstring, although a base class has a signature
\* and the gir doc exists
C5_Witness ==
    /\ FuncReturned
    /\ OwnSig = NoSig /\ Truthy(OwnDoc)
    /\ IsMethod /\ Yielding # {}
    /\ GirDoc # <<>>
    /\ ret.out.kind = "alias"

\* the signature the emitter has to use
ExpectedSig ==
    IF OwnSig # NoSig THEN OwnSig
    ELSE IF ~Truthy(OwnDoc) /\ IsMethod /\ Yielding # {}
    THEN get_sig(Last(call.name), AncestorsOf(call.owner)[Min(Yielding)].doc)
    ELSE NoSig

\* the prose of the own docstring: its lines from the first line after the
\* signature line that is not blank
UserBody ==
    LET ls == StrLines(OwnDoc)
        prose == {i \in 2..Len(ls) : ~IsBlank(ls[i])}
    IN IF prose = {} THEN <<>> ELSE SubSeq(ls, Min(prose), Len(ls))

\* C6: with a signature from the callable or from an ancestor, the attached
\* text is the listing of that signature followed by the user's prose if
\* there is any, else by the gir doc if there is one, else by nothing.
C6_ListingThenBodyOrGir ==
    (FuncReturned /\ ExpectedSig # NoSig) =>
        LET listing == to_rest_listing(ExpectedSig, call.name,
                           IF IsMethod THEN call.owner.target ELSE NoCurrent)
        IN /\ ret.out.kind = IF IsMethod THEN "trailing" ELSE "docattr"
           /\ ret.out.docs =
                 <<listing>> \o
                 (IF UserBody # <<>>
                  THEN <<(<<"blank">>), <<"unindent", UserBody>>>>
                  ELSE IF GirDoc # <<>>
                  THEN <<(<<"blank">>), <<"rest", GirDoc>>>>
                  ELSE <<>>)

\* a signature line, a blank line and prose, for a name that has a gir doc:
\* the prose was attached
C6_Witness ==
    /\ FuncReturned
    /\ OwnSig # NoSig
    /\ Len(StrLines(OwnDoc)) = 3 /\ Len(UserBody) = 1
    /\ GirDoc # <<>>
    /\ Len(ret.out.docs) = 3
    /\ ret.out.docs[3][1] = "unindent"

\* the ancestors are probed in order up to the first that yields a
\* signature, and that signature is the one used
WalkedToFirst ==
    LET n == IF Yielding = {} THEN Len(AncestorsOf(call.owner)) ELSE Min(Yielding)
    IN /\ ret.probed = [i \in 1..n |-> i]
       /\ ret.sig = ExpectedSig
       /\ Yielding # {} => ret.out.docs[1][2] = ExpectedSig

\* C10 as stated: for a method without a signature on its own docstring.
C10_MroWalk ==
    (FuncReturned /\ OwnSig = NoSig /\ IsMethod)
        => LET n == IF Yielding = {} THEN Len(AncestorsOf(call.owner))
                    ELSE Min(Yielding)
           IN /\ ret.probed = [i \in 1..n |-> i]
              /\ Yielding # {} =>
                    /\ Len(ret.out.docs) > 0
                    /\ ret.out.docs[1][2] =
                          get_sig(Last(call.name),
                                  AncestorsOf(call.owner)[Min(Yielding)].doc)

\* C10, amended: for a method that has no docstring of its own (None or
\* empty).
C10_MroWalkNoDoc ==
    (FuncReturned /\ ~Truthy(OwnDoc) /\ OwnSig = NoSig /\ IsMethod)
        => WalkedToFirst

\* the first ancestor raises, the second yields a signature, a third has
\* another: two were probed and the second one's signature is used
C10_Witness ==
    /\ FuncReturned
    /\ ~Truthy(OwnDoc) /\ IsMethod
    /\ Len(AncestorsOf(call.owner)) = 3
    /\ AncestorsOf(call.owner)[1].raises
    /\ Yielding = {2, 3}
    /\ AncestorsOf(call.owner)[3].doc # AncestorsOf(call.owner)[2].doc
    /\ ret.probed = <<1, 2>>
    /\ ret.sig = "f(b)"

(***************************************************************************)
(* Enum/flag emitter: parse_flags (lines 302-347).                         *)
(*                                                                         *)
(* An enum/flag type is [base, name, attrs]: whether it is GObject.GFlags  *)
(* or GObject.GEnum itself, its __name__, and its attributes, each with    *)
(* its integer value and whether it is an instance of the type.  The       *)
(* emission is [kind, header, stmts]; a statement is                       *)
(* <<"bind", member, value, docs>> or <<"setattr", class, member>>.        *)
(***************************************************************************)
\* the attribute names of the model, in the order dir() lists them
DirOrder == <<"A", "B", "_A", "_B", "b">>

AttrNames == Range(DirOrder)

DirRank(n) == CHOOSE i \in 1..Len(DirOrder) : DirOrder[i] = n

\* dir(obj)
dir(attrs) == LET Has(n) == n \in DOMAIN attrs IN SelectSeq(DirOrder, Has)

\* attr_name.upper()
Upper(n) == IF n = "b" THEN "B" ELSE n

\* n.lower()
Lower(n) ==
    CASE n = "A" -> "a" [] n = "B" -> "b" [] n = "_A" -> "_a"
      [] n = "_B" -> "_b" [] OTHER -> n

\* "_" + attr_name
Underscored(n) ==
    CASE n = "A" -> "_A" [] n = "B" -> "_B" [] n = "_A" -> "__A"
      [] n = "_B" -> "__B" [] OTHER -> "_b"

\* the order of the tuples (int(attr), attr_name)
PairLess(p, q) == p[1] < q[1] \/ (p[1] = q[1] /\ DirRank(p[2]) < DirRank(q[2]))

RECURSIVE Insert(_, _)
Insert(p, sorted) ==
    IF sorted = <<>> THEN <<p>>
    ELSE IF PairLess(p, sorted[1]) THEN <<p>> \o sorted
    ELSE <<sorted[1]>> \o Insert(p, Tail(sorted))

RECURSIVE Sorted(_)
\* line 335: values.sort()
Sorted(values) ==
    IF values = <<>> THEN <<>> ELSE Insert(values[1], Sorted(Tail(values)))

RECURSIVE Collect(_, _, _, _)
\* lines 322-333, over the rest of dir(obj)
Collect(attrs, names, escaped, values) ==
    IF names = <<>> THEN [escaped |-> escaped, values |-> values]
    ELSE LET attr_name == names[1] IN
         IF Upper(attr_name) # attr_name
         THEN Collect(attrs, Tail(names), escaped, values)
         ELSE IF Underscored(attr_name) \in DOMAIN attrs
         THEN Collect(attrs, Tail(names), Append(escaped, attr_name), values)
         ELSE IF ~attrs[attr_name].inst
         THEN Collect(attrs, Tail(names), escaped, values)
         ELSE Collect(attrs, Tail(names), escaped,
                      Append(values, <<attrs[attr_name].val, attr_name>>))

AssembleRebindFirst(binds, rebinds) == rebinds \o binds

\* lines 337-345: the member bindings, then the setattr statements
Assemble(binds, rebinds) == binds \o rebinds

\* lines 302-347
parse_flags(name, obj) ==
    IF obj.base
    THEN [kind |-> "basealias", header |-> <<obj.name>>, stmts |-> <<>>]
    ELSE LET got == Collect(obj.attrs, dir(obj.attrs), <<>>, <<>>)
             values == Sorted(got.values)
             binds == [i \in 1..Len(values) |->
                         <<"bind", values[i][2], values[i][1],
                           lookup_attr_docs(Append(name, Lower(values[i][2])),
                                            NoCurrent)>>]
             rebinds == [i \in 1..Len(got.escaped) |->
                           <<"setattr", obj.name, got.escaped[i]>>]
         IN [kind |-> "class",
             header |-> <<obj.name, lookup_attr_docs(name, NoCurrent)>>,
             stmts |-> Assemble(binds, rebinds)]

\* the call returns to its caller
ParseFlags ==
    /\ pc = "called"
    /\ call.op = "parse_flags"
    /\ ret' = parse_flags(call.name, call.obj)
    /\ all_docs' = DictAfterRead(all_docs, call.name)
    /\ pc' = "returned"
    /\ UNCHANGED <<initvars, types, parameters, returns, signals, properties, call, ncalls>>

(***************************************************************************)
(* FlagsSpec: parse_flags on a constructed Repository.                     *)
(***************************************************************************)
FlagsName == <<"Gtk", "Flags">>

Members == [val : 1..MaxVal, inst : BOOLEAN]

AttrMaps == UNION {[S -> Members] : S \in SUBSET AttrNames}

FlagTypes ==
    {[base |-> TRUE, name |-> "GFlags", attrs |-> <<>>]} \cup
    {[base |-> FALSE, name |-> "Flags", attrs |-> a] : a \in AttrMaps}

InitFlags ==
    /\ Constructed
    /\ types = EmptyTable
    /\ all_docs \in {EmptyDict,
                     Entry(Append(FlagsName, "b"), <<(<<"a">>), "3.0">>)}
    /\ parameters = EmptyDict
    /\ returns = EmptyDict
    /\ properties = EmptyDict
    /\ signals = EmptyDict
    /\ call \in [op : {"parse_flags"}, name : {FlagsName}, obj : FlagTypes]
    /\ ret = None
    /\ ncalls = 0
    /\ pc = "called"

NextFlags == ParseFlags

FlagsSpec == InitFlags /\ [][NextFlags]_vars

(***************************************************************************)
(* Properties of parse_flags                                               *)
(***************************************************************************)
FlagsReturned ==
    /\ pc = "returned"
    /\ call.op = "parse_flags"
    /\ ~call.obj.base

Binds == {i \in 1..Len(ret.stmts) : ret.stmts[i][1] = "bind"}

Rebinds == {i \in 1..Len(ret.stmts) : ret.stmts[i][1] = "setattr"}

\* the uppercase members
UpperMembers == {n \in DOMAIN call.obj.attrs : Upper(n) = n}

HasShadow(n) == Underscored(n) \in DOMAIN call.obj.attrs

\* C8: no member that has an escaped shadow is bound as a natural member;
\* the natural members that are instances of the type are bound, once
\* each, to their values in ascending order of value; the escaped members
\* are rebound, and every rebinding comes after every natural binding.
C8_RebindAfterSortedBinds ==
    FlagsReturned =>
        /\ \A i \in Binds : ~HasShadow(ret.stmts[i][2])
        /\ {ret.stmts[i][2] : i \in Binds} =
              {n \in UpperMembers : ~HasShadow(n) /\ call.obj.attrs[n].inst}
        /\ \A i, j \in Binds : i # j => ret.stmts[i][2] # ret.stmts[j][2]
        /\ \A i \in Binds : ret.stmts[i][3] = call.obj.attrs[ret.stmts[i][2]].val
        /\ \A i, j \in Binds : i < j => ret.stmts[i][3] <= ret.stmts[j][3]
        /\ {ret.stmts[j][3] : j \in Rebinds} = {n \in UpperMembers : HasShadow(n)}
        /\ \A i \in Binds, j \in Rebinds : i < j

\* A = 1 has the shadow _A = 2 and B = 2 has none: B is bound and A is
\* rebound at the end
C8_Witness ==
    /\ FlagsReturned
    /\ DOMAIN call.obj.attrs = {"A", "_A", "B"}
    /\ call.obj.attrs["A"] = [val |-> 1, inst |-> TRUE]
    /\ call.obj.attrs["_A"] = [val |-> 2, inst |-> TRUE]
    /\ call.obj.attrs["B"] = [val |-> 2, inst |-> TRUE]
    /\ Len(ret.stmts) = 3
    /\ ret.stmts[1][2] = "B"
    /\ ret.stmts[3] = <<"setattr", "Flags", "A">>

(***************************************************************************)
(* The other lookups and emitters (lines 112-300).                         *)
(***************************************************************************)
\* self.namespace
Namespace == "Gtk"

\* name.split(".")[-1][:1].isdigit()
DigitLeading(name) == Last(name) \in {"2BUTTON_PRESS"}

\* name.startswith("Gtk.STOCK_")
IsStock(name) == Len(name) >= 2 /\ name[1] = "Gtk" /\ name[2] \in {"STOCK_OK"}

\* gtkstock.parse_stock_icon(name)
parse_stock_icon(name) == <<(<<"stockicon", name>>)>>

\* util.gtype_to_rest(t)
gtype_to_rest(t) == <<"gtype", t>>

\* lines 181-201
parse_constant(name) ==
    IF DigitLeading(name) THEN None
    ELSE LET docs == lookup_attr_docs(name, NoCurrent)
         IN <<"constant", Last(name), name,
              IF IsStock(name) THEN docs \o parse_stock_icon(name) ELSE docs>>

\* lines 212-216
BaseName(base) ==
    IF base.module # Namespace /\ base.name # "object"
    THEN <<base.module, base.name>>
    ELSE <<base.name>>

\* lines 203-233; obj.mro_bases is util.merge_in_overrides(obj)
parse_class(name, obj, add_bases) ==
    LET names == IF add_bases
                 THEN [i \in 1..Len(obj.mro_bases) |-> BaseName(obj.mro_bases[i])]
                 ELSE <<>>
        bases == IF names = <<>> THEN <<(<<"object">>)>> ELSE names
    IN <<"class", Last(name), bases, lookup_attr_docs(name, obj.target), name>>

\* lines 49-57
Signal(name, params, rtype, desc, short_desc) ==
    [name |-> name, params |-> params, ret |-> rtype, desc |-> desc,
     short_desc |-> short_desc]

\* lines 235-262; obj.signals lists the attributes of obj.signals in the
\* order of dir()
parse_signals(obj) ==
    IF ~obj.has_signals THEN <<>>
    ELSE LET Public(a) == ~a.private
             sigs == SelectSeq(obj.signals, Public)
         IN [i \in 1..Len(sigs) |->
               LET doc_key == Append(obj.qualname, sigs[i].name)
               IN Signal(sigs[i].name,
                         [j \in 1..Len(sigs[i].param_types) |->
                             gtype_to_rest(sigs[i].param_types[j])],
                         gtype_to_rest(sigs[i].return_type),
                         lookup_signal_docs(doc_key, FALSE, obj.target),
                         lookup_signal_docs(doc_key, TRUE, obj.target))]

\* lines 22-35
Property(name, attr_name, type_desc, readable, writable, construct, short_desc, desc) ==
    [name |-> name, attr_name |-> attr_name, type_desc |-> type_desc,
     readable |-> readable, writable |-> writable, construct |-> construct,
     short_desc |-> short_desc, desc |-> desc]

\* lines 37-46
flags_string(p) ==
    (IF p.readable THEN <<"r">> ELSE <<>>) \o
    (IF p.writable THEN <<"w">> ELSE <<>>) \o
    (IF p.construct THEN <<"c">> ELSE <<>>)

\* lines 264-300; obj.props lists the attributes of obj.props in the order
\* of dir()
parse_properties(obj) ==
    IF ~obj.has_props THEN <<>>
    ELSE LET Kept(a) == ~a.private /\ a.spec.present /\ a.spec.owned
             specs == SelectSeq(obj.props, Kept)
         IN [i \in 1..Len(specs) |->
               LET spec == specs[i].spec
                   short_desc == IF ~spec.blurb.isNone
                                 THEN _fix_docs(spec.blurb.text, NoVersion,
                                                obj.target)
                                 ELSE <<>>
                   found == lookup_prop_docs(Append(obj.qualname, spec.name),
                                             obj.target)
               IN Property(spec.name, specs[i].attr,
                           gtype_to_rest(spec.value_type),
                           "READABLE" \in spec.flags,
                           "WRITABLE" \in spec.flags,
                           "CONSTRUCT" \in spec.flags,
                           short_desc,
                           IF found # <<>> THEN found ELSE short_desc)]

\* each of the following is a call returning to its caller
LookupAttrDocs ==
    /\ pc = "called"
    /\ call.op = "lookup_attr_docs"
    /\ ret' = lookup_attr_docs(call.name, call.current)
    /\ all_docs' = DictAfterRead(all_docs, call.name)
    /\ pc' = "returned"
    /\ UNCHANGED <<initvars, types, parameters, returns, signals, properties, call, ncalls>>

LookupReturnDocs ==
    /\ pc = "called"
    /\ call.op = "lookup_return_docs"
    /\ ret' = lookup_return_docs(call.name, call.current)
    /\ returns' = DictAfterRead(returns, call.name)
    /\ pc' = "returned"
    /\ UNCHANGED <<initvars, types, all_docs, parameters, signals, properties, call, ncalls>>

LookupParameterDocs ==
    /\ pc = "called"
    /\ call.op = "lookup_parameter_docs"
    /\ ret' = lookup_parameter_docs(call.name, call.current)
    /\ parameters' = DictAfterRead(parameters, call.name)
    /\ pc' = "returned"
    /\ UNCHANGED <<initvars, types, all_docs, returns, signals, properties, call, ncalls>>

LookupPropDocs ==
    /\ pc = "called"
    /\ call.op = "lookup_prop_docs"
    /\ ret' = lookup_prop_docs(call.name, call.current)
    /\ properties' = DictAfterRead(properties, call.name)
    /\ pc' = "returned"
    /\ UNCHANGED <<initvars, types, all_docs, parameters, returns, signals, call, ncalls>>

ParseConstant ==
    /\ pc = "called"
    /\ call.op = "parse_constant"
    /\ ret' = parse_constant(call.name)
    /\ all_docs' = DictAfterRead(all_docs, call.name)
    /\ pc' = "returned"
    /\ UNCHANGED <<initvars, types, parameters, returns, signals, properties, call, ncalls>>

ParseClass ==
    /\ pc = "called"
    /\ call.op = "parse_class"
    /\ ret' = parse_class(call.name, call.obj, call.add_bases)
    /\ all_docs' = DictAfterRead(all_docs, call.name)
    /\ pc' = "returned"
    /\ UNCHANGED <<initvars, types, parameters, returns, signals, properties, call, ncalls>>

ParseSignals ==
    /\ pc = "called"
    /\ call.op = "parse_signals"
    /\ ret' = parse_signals(call.obj)
    /\ signals' = DictAfterRead(signals, Append(call.obj.qualname, "some-signal"))
    /\ pc' = "returned"
    /\ UNCHANGED <<initvars, types, all_docs, parameters, returns, properties, call, ncalls>>

ParseProperties ==
    /\ pc = "called"
    /\ call.op = "parse_properties"
    /\ ret' = parse_properties(call.obj)
    /\ properties' = DictAfterRead(properties, Append(call.obj.qualname, "some-prop"))
    /\ pc' = "returned"
    /\ UNCHANGED <<initvars, types, all_docs, parameters, returns, signals, call, ncalls>>

(***************************************************************************)
(* ReadySpec: a constructed Repository and its callers.                    *)
(***************************************************************************)
ClassName == <<"Gtk", "Foo">>

SomeDoc == <<(<<"T", ".", " ", "a">>), "3.0">>

\* the names the callers ask the lookups for
LookupNames == {FuncName, ClassName, <<"Gtk", "Foo", "some-prop">>}

SignalObjs ==
    {[target |-> "T", qualname |-> ClassName, has_signals |-> FALSE, signals |-> <<>>],
     [target |-> "T", qualname |-> ClassName, has_signals |-> TRUE,
      signals |-> <<[private |-> TRUE, name |-> "_hidden",
                     param_types |-> <<>>, return_type |-> "void"],
                    [private |-> FALSE, name |-> "some-signal",
                     param_types |-> <<"int">>, return_type |-> "void"]>>]}

Blurbs == {[isNone |-> TRUE, text |-> <<>>], [isNone |-> FALSE, text |-> <<"a">>]}

PropSpecs ==
    [present : BOOLEAN, owned : BOOLEAN, name : {"some-prop"},
     value_type : {"int"}, flags : {{"READABLE"}, {"READABLE", "WRITABLE", "CONSTRUCT"}},
     blurb : Blurbs]

PropObjs ==
    {[target |-> "T", qualname |-> ClassName, has_props |-> FALSE, props |-> <<>>]}
    \cup
    {[target |-> "T", qualname |-> ClassName, has_props |-> TRUE,
      props |-> <<[attr |-> "some_prop", private |-> FALSE, spec |-> sp]>>] :
        sp \in PropSpecs}

ClassObjs ==
    {[target |-> "T",
      mro_bases |-> <<[module |-> "Gtk", name |-> "Widget"],
                      [module |-> "GObject", name |-> "Object"],
                      [module |-> "__builtin__", name |-> "object"]>>]}

ReadyOwners ==
    {NoOwner,
     [present |-> TRUE, target |-> "T",
      mro |-> <<OwnerEntry, [raises |-> TRUE, doc |-> NoneDoc],
                [raises |-> FALSE, doc |-> Doc(<<"f(b)">>)]>>]}

ReadyDocs == {NoneDoc, Doc(<<"text">>), Doc(<<"f(a)", "text">>)}

ReadyFlagTypes ==
    {[base |-> TRUE, name |-> "GEnum", attrs |-> <<>>],
     [base |-> FALSE, name |-> "Flags",
      attrs |-> [n \in {"A", "_A", "B"} |->
                    [val |-> IF n = "A" THEN 1 ELSE 2, inst |-> TRUE]]]}

InitReady ==
    /\ Constructed
    /\ \E full \in BOOLEAN :
        /\ all_docs = IF full THEN Entry(FuncName, SomeDoc) ELSE EmptyDict
        /\ parameters = IF full THEN Entry(Append(FuncName, "a"), SomeDoc) ELSE EmptyDict
        /\ returns = IF full THEN Entry(FuncName, SomeDoc) ELSE EmptyDict
        /\ signals = IF full THEN Entry(Append(ClassName, "some-signal"), SomeDoc)
                     ELSE EmptyDict
        /\ properties = IF full THEN Entry(Append(ClassName, "some-prop"), SomeDoc)
                        ELSE EmptyDict
    /\ call = NoCall
    /\ ret = None
    /\ ncalls = 0
    /\ pc = "ready"

\* a caller invokes one of the methods
Invoke ==
    /\ pc = "ready"
    /\ ncalls < MaxCalls
    /\ \/ call' \in [op : {"lookup_attr_docs"}, name : LookupNames, current : Currents]
       \/ call' \in [op : {"lookup_return_docs"}, name : LookupNames, current : Currents]
       \/ call' \in [op : {"lookup_parameter_docs"},
                     name : {Append(FuncName, "a"), ClassName}, current : Currents]
       \/ call' \in [op : {"lookup_signal_docs"},
                     name : {Append(ClassName, "some-signal"), ClassName},
                     short : BOOLEAN, current : Currents]
       \/ call' \in [op : {"lookup_prop_docs"}, name : LookupNames, current : Currents]
       \/ call' \in [op : {"parse_constant"},
                     name : {<<"Gtk", "STOCK_OK">>, <<"Gdk", "2BUTTON_PRESS">>, FuncName}]
       \/ call' \in [op : {"parse_class"}, name : {ClassName}, obj : ClassObjs,
                     add_bases : BOOLEAN]
       \/ call' \in [op : {"parse_signals"}, obj : SignalObjs]
       \/ call' \in [op : {"parse_properties"}, obj : PropObjs]
       \/ call' \in [op : {"parse_flags"}, name : {FlagsName}, obj : ReadyFlagTypes]
       \/ call' \in [op : {"parse_function"}, name : FuncNames, owner : ReadyOwners,
                     obj : [doc : ReadyDocs, static : BOOLEAN]]
    /\ ncalls' = ncalls + 1
    /\ pc' = "called"
    /\ UNCHANGED <<initvars, types, docvars, ret>>

\* the caller has the result; the Repository awaits the next call
Return ==
    /\ pc = "returned"
    /\ pc' = "ready"
    /\ call' = NoCall
    /\ ret' = None
    /\ UNCHANGED <<initvars, types, docvars, ncalls>>

NextReady ==
    \/ Invoke
    \/ LookupAttrDocs
    \/ LookupReturnDocs
    \/ LookupParameterDocs
    \/ LookupSignalDocs
    \/ LookupPropDocs
    \/ ParseConstant
    \/ ParseClass
    \/ ParseSignals
    \/ ParseProperties
    \/ ParseFlags
    \/ ParseFunction
    \/ Return

ReadySpec == InitReady /\ [][NextReady]_vars

(***************************************************************************)
(* Properties of the constructed Repository                                *)
(***************************************************************************)
\* C9: no lookup and no emission call changes any of the five maps of the
\* DocIndex or the TypeTable: each keeps the value construction gave it.
C9_IndexNeverModified ==
    [][UNCHANGED <<all_docs, parameters, returns, signals, properties, types>>]_vars

\* a third call in a row has returned: an emission of a method that found
\* its signature on a base class, on a Repository whose maps hold entries
C9_Witness ==
    /\ pc = "returned"
    /\ ncalls = 3
    /\ call.op = "parse_function"
    /\ ret.sig = "f(b)"
    /\ DOMAIN all_docs # {}
    /\ DOMAIN signals # {}

=============================================================================
